---- MODULE Spec2Model ----
(***************************************************************************)
(* A model of tools/android_component_test_generator.py: the component     *)
(* classifier (parse_component_file), the project scanner                  *)
(* (discover_components), the scaffold generator (test_class), the         *)
(* scaffold writer (write_tests), the build-file augmenter (ensure_jacoco) *)
(* and the coverage summarizer (parse_coverage, CoverageSummary).          *)
(*                                                                         *)
(* Text is modelled as a sequence of pieces.  An identifier is a sequence  *)
(* of word parts (<<"Login", "Activity">> is LoginActivity, and            *)
(* <<"com", ".", "app">> is com.app), a path is an anchor ("/" when        *)
(* absolute, "" when relative) with a sequence of segments, each segment   *)
(* an identifier.                                                          *)
(***************************************************************************)
EXTENDS Integers, Sequences, FiniteSets, TLC

VARIABLES fs, fs0, call, call0, runs

vars == <<fs, fs0, call, call0, runs>>

(* ------------------------------ bounds -------------------------------- *)

MaxRuns == 2
MaxBatch == 3
MaxText == 3
MaxDecls == 2
MaxAttrLen == 1
MaxRoom == 2

(* --------------------------- sequences, text --------------------------- *)

IsPrefix(s, t) == Len(s) <= Len(t) /\ SubSeq(t, 1, Len(s)) = s

\* Python's `pat in text` on sequences of pieces
Contains(text, pat) ==
    \E i \in 0..(Len(text) - Len(pat)) : SubSeq(text, i + 1, i + Len(pat)) = pat

SeqsUpTo(S, n) == UNION {[1..k -> S] : k \in 0..n}

RECURSIVE Flatten(_)
Flatten(ss) == IF ss = <<>> THEN <<>> ELSE Head(ss) \o Flatten(Tail(ss))

(* ------------------------------- paths -------------------------------- *)

Path(anchor, parts) == [anchor |-> anchor, parts |-> parts]

is_absolute(p) == p.anchor = "/"

\* pathlib's `/`: an absolute right operand replaces the left one
Join(p, q) == IF is_absolute(q) THEN q ELSE Path(p.anchor, p.parts \o q.parts)

parent(p) == Path(p.anchor, SubSeq(p.parts, 1, Len(p.parts) - 1))

\* every ancestor directory of p that has a name
Parents(p) == {Path(p.anchor, SubSeq(p.parts, 1, k)) : k \in 1..(Len(p.parts) - 1)}

Under(p, dir) == p.anchor = dir.anchor /\ Len(p.parts) > Len(dir.parts)
                 /\ IsPrefix(dir.parts, p.parts)

DotExts == {".java", ".kt", ".txt", ".gradle", ".xml"}

\* Path.suffix: the extension of the last segment, "" when it has none
suffix(p) ==
    IF p.parts = <<>> THEN ""
    ELSE LET seg == p.parts[Len(p.parts)]
         IN IF Len(seg) > 1 /\ seg[Len(seg)] \in DotExts THEN seg[Len(seg)] ELSE ""

\* Path.cwd(): always absolute
Cwd == Path("/", << <<"proj">> >>)

\* PurePath.relative_to(other) raises ValueError unless other is an ancestor
\* of (or equal to) the path, anchors included
relative_to_raises(p, other) ==
    ~(p.anchor = other.anchor /\ IsPrefix(other.parts, p.parts))

\* str.split("."): the pieces between the dots; a piece may be empty
RECURSIVE split(_)
split(s) ==
    IF \A i \in 1..Len(s) : s[i] # "." THEN <<s>>
    ELSE LET d == CHOOSE i \in 1..Len(s) :
                      s[i] = "." /\ \A j \in 1..(i - 1) : s[j] # "."
         IN <<SubSeq(s, 1, d - 1)>> \o split(SubSeq(s, d + 1, Len(s)))

\* Path(*segments): pathlib drops empty segments
RECURSIVE PathOf(_)
PathOf(segs) ==
    IF segs = <<>> THEN <<>>
    ELSE (IF Head(segs) = <<>> THEN <<>> ELSE <<Head(segs)>>) \o PathOf(Tail(segs))

(* ----------------------------- Component ------------------------------ *)

SUPPORTED_EXTENSIONS == {".java", ".kt"}

Component(name, package, file_path, type) ==
    [name |-> name, package |-> package, file_path |-> file_path, type |-> type]

qualified_name(c) == IF c.package # <<>> THEN c.package \o <<".">> \o c.name ELSE c.name

test_class_name(c) == c.name \o <<"Test">>

TestRoot == << <<"app">>, <<"src">>, <<"test">>, <<"java">> >>

test_path_src_ext(c) ==
    LET package_dir == IF c.package # <<>> THEN PathOf(split(c.package)) ELSE <<>>
    IN Path("", TestRoot \o package_dir \o <<test_class_name(c) \o <<suffix(c.file_path)>> >>)

test_path(c) ==
    LET package_dir == IF c.package # <<>> THEN PathOf(split(c.package)) ELSE <<>>
    IN Path("", TestRoot \o package_dir \o <<test_class_name(c) \o <<".java">> >>)

(* ------------------------- scaffold generator ------------------------- *)

Lifecycle == {"Activity", "Service", "BroadcastReceiver"}

\* sorted(set(imports)): a sorted duplicate-free list is determined by its set
generate_imports(c) ==
    { <<"org.junit.Test">>, <<"org.junit.runner.RunWith">>, <<"org.junit.Assert">>,
      <<"org.mockito.Mock">>, <<"org.mockito.Mockito">>,
      <<"org.mockito.junit.MockitoJUnitRunner">> }
    \cup (IF c.type \in Lifecycle
          THEN { <<"android.content.Context">>, <<"android.content.Intent">>,
                 <<"android.util.Log">> }
          ELSE {})
    \cup (IF c.type = "BroadcastReceiver" THEN { <<"android.content.BroadcastReceiver">> } ELSE {})
    \cup (IF c.type = "Activity" THEN { <<"android.app.Activity">> } ELSE {})
    \cup (IF c.type = "Service" THEN { <<"android.app.Service">> } ELSE {})
    \cup (IF c.type = "ViewModel"
          THEN { <<"androidx.lifecycle.ViewModel">>, <<"androidx.lifecycle.SavedStateHandle">> }
          ELSE {})
    \cup {qualified_name(c)}

generate_valid_invalid_tests(c) ==
    [valid |-> qualified_name(c), invalid |-> qualified_name(c) \o <<"_Missing">>]

generate_mockito_test(c) ==
    [target |-> c.name,
     context_setup |-> c.type \in Lifecycle,
     collaborator |-> IF c.type = "ViewModel" THEN "SavedStateHandle" ELSE "Intent"]

test_body(c) == [resolve |-> generate_valid_invalid_tests(c), mock |-> generate_mockito_test(c)]

\* the generated document, by the values the template is filled with
test_class(c) ==
    [package_line |-> c.package,
     imports |-> generate_imports(c),
     class_name |-> test_class_name(c),
     mocks |-> IF c.type = "ViewModel" THEN <<"SavedStateHandle">>
               ELSE IF c.type \in Lifecycle THEN <<"Context", "Intent">>
               ELSE <<"Context">>,
     body |-> test_body(c)]

\* a test file that was on disk before the tool ran
OldText ==
    [package_line |-> <<>>, imports |-> {}, class_name |-> <<"old">>, mocks |-> <<>>,
     body |-> [resolve |-> [valid |-> <<>>, invalid |-> <<>>],
               mock |-> [target |-> <<>>, context_setup |-> FALSE, collaborator |-> ""]]]

(* ----------------------------- filesystem ----------------------------- *)

\* fs.tests: the files under the test root, as [path, text];  fs.src: the
\* source files, as [path, text];  fs.dirs: the directories;  fs.build:
\* the build file;  fs.report: the coverage report.

exists(files, p) == \E f \in files : f.path = p

read_text(files, p) == (CHOOSE f \in files : f.path = p).text

write_text(files, p, text) == {f \in files : f.path # p} \cup {[path |-> p, text |-> text]}

\* ensure_directory: path.parent.mkdir(parents=True, exist_ok=True)
ensure_directory(dirs, p) == dirs \cup Parents(p)

\* A write that the storage fails is given as [path, mode, room]: mode
\* "open" when open() fails and the file is left as it was (no permission,
\* a directory at the path); mode "full" when the file is created or
\* truncated and the write then fails (device full, file size limit) with
\* room for only the first `room` items of the document.
refused(bad, p) == \E b \in bad : b.path = p

\* the library imports in the order sorted() gives them (code points:
\* an upper-case letter comes before every lower-case one)
AndroidOrder ==
    << <<"android.app.Activity">>, <<"android.app.Service">>,
       <<"android.content.BroadcastReceiver">>, <<"android.content.Context">>,
       <<"android.content.Intent">>, <<"android.util.Log">>,
       <<"androidx.lifecycle.SavedStateHandle">>, <<"androidx.lifecycle.ViewModel">> >>

OrgOrder ==
    << <<"org.junit.Assert">>, <<"org.junit.Test">>, <<"org.junit.runner.RunWith">>,
       <<"org.mockito.Mock">>, <<"org.mockito.Mockito">>,
       <<"org.mockito.junit.MockitoJUnitRunner">> >>

LibraryOrder == AndroidOrder \o OrgOrder

\* sorted(set(imports)): the unit's own name comes first when it has no
\* package (a class name starts with an upper-case letter), and between the
\* android and the org imports when its package starts with com
sorted(imports) ==
    LET Kept(x) == x \in imports
        own == imports \ {LibraryOrder[i] : i \in 1..Len(LibraryOrder)}
    IN IF own = {} THEN SelectSeq(LibraryOrder, Kept)
       ELSE LET q == CHOOSE x \in own : TRUE
            IN IF Head(q) = "com"
               THEN SelectSeq(AndroidOrder, Kept) \o <<q>> \o SelectSeq(OrgOrder, Kept)
               ELSE <<q>> \o SelectSeq(LibraryOrder, Kept)

\* the number of items of the document: the package line when there is one,
\* an import line for each import, the class line, the mocks and the three tests
Items(text) ==
    (IF text.package_line # <<>> THEN 1 ELSE 0) + Cardinality(text.imports) + 5

\* what a write that stopped part-way leaves: the first k items of the
\* document; an item cut part-way and blank lines are left out, so k = 0 is
\* the file without a line of the document, the empty file included
PartOf(text, k) ==
    LET p == IF text.package_line # <<>> THEN 1 ELSE 0
        imps == sorted(text.imports)
        n == Len(imps)
        i == IF k - p < 0 THEN 0 ELSE IF k - p > n THEN n ELSE k - p
        r == k - p - n
    IN [package_line |-> IF k >= 1 THEN text.package_line ELSE <<>>,
        imports |-> {imps[j] : j \in 1..i},
        class_name |-> IF r >= 1 THEN text.class_name ELSE <<>>,
        mocks |-> IF r >= 2 THEN text.mocks ELSE <<>>,
        body |-> [resolve |-> [valid |-> IF r >= 3 THEN text.body.resolve.valid ELSE <<>>,
                               invalid |-> IF r >= 4 THEN text.body.resolve.invalid ELSE <<>>],
                  mock |-> IF r >= 5 THEN text.body.mock
                           ELSE [target |-> <<>>, context_setup |-> FALSE,
                                 collaborator |-> ""]]]

\* the files after a write that raised OSError
failed_write(files, p, text, bad) ==
    IF \E b \in bad : b.path = p /\ b.mode = "full"
    THEN LET b == CHOOSE x \in bad : x.path = p /\ x.mode = "full"
         IN write_text(files, p, PartOf(text, b.room))
    ELSE files

(* --------------------------- scaffold writer -------------------------- *)

\* The loop of write_tests from unit i on.  st carries the test files, the
\* directories, the list `written`, the paths skipped, the units whose
\* iteration began with the destination computed for each; bad is the set
\* of writes the storage fails.
RECURSIVE write_loop(_, _, _, _, _)
write_loop(components, force, bad, i, st) ==
    IF i > Len(components) THEN [st EXCEPT !.outcome = "returned"]
    ELSE LET component == components[i]
             destination == test_path(component)
             content == test_class(component)
             st1 == [st EXCEPT !.attempted = @ \cup {i},
                               !.destinations = Append(@, destination),
                               !.dirs = ensure_directory(@, destination)]
         IN IF exists(st1.tests, destination) /\ ~force
            THEN write_loop(components, force, bad, i + 1,
                            [st1 EXCEPT !.skipped = Append(@, destination)])
            ELSE IF refused(bad, destination)
            THEN [st1 EXCEPT !.tests = failed_write(@, destination, content, bad),
                             !.outcome = "OSError", !.failedAt = i]
            ELSE LET st2 == [st1 EXCEPT !.tests = write_text(@, destination, content),
                                        !.written = Append(@, destination)]
                 IN \* print(f"Created {destination.relative_to(Path.cwd())}")
                    IF relative_to_raises(destination, Cwd)
                    THEN [st2 EXCEPT !.outcome = "ValueError"]
                    ELSE write_loop(components, force, bad, i + 1, st2)

\* the same loop with each unit's storage failure caught and the batch continued
RECURSIVE write_loop_best_effort(_, _, _, _, _)
write_loop_best_effort(components, force, bad, i, st) ==
    IF i > Len(components)
    THEN [st EXCEPT !.outcome = IF @ = "running" THEN "returned" ELSE @]
    ELSE LET component == components[i]
             destination == test_path(component)
             content == test_class(component)
             st1 == [st EXCEPT !.attempted = @ \cup {i},
                               !.destinations = Append(@, destination),
                               !.dirs = ensure_directory(@, destination)]
         IN IF exists(st1.tests, destination) /\ ~force
            THEN write_loop_best_effort(components, force, bad, i + 1,
                            [st1 EXCEPT !.skipped = Append(@, destination)])
            ELSE IF refused(bad, destination)
            THEN write_loop_best_effort(components, force, bad, i + 1,
                            [st1 EXCEPT !.tests = failed_write(@, destination, content, bad),
                                        !.outcome = "OSError", !.failedAt = i])
            ELSE [st1 EXCEPT !.tests = write_text(@, destination, content),
                             !.written = Append(@, destination),
                             !.outcome = "ValueError"]

WriteStart(f) ==
    [tests |-> f.tests, dirs |-> f.dirs, written |-> <<>>, skipped |-> <<>>,
     attempted |-> {}, destinations |-> <<>>, failedAt |-> 0, outcome |-> "running"]

write_tests_best_effort(f, components, force, bad) ==
    write_loop_best_effort(components, force, bad, 1, WriteStart(f))

write_tests(f, components, force, bad) ==
    write_loop(components, force, bad, 1, WriteStart(f))

(* ------------------------- build-file augmenter ----------------------- *)

Whitespace == {" ", "\n"}

\* str.rstrip(): the text without its trailing whitespace
RECURSIVE rstrip(_)
rstrip(text) ==
    IF text # <<>> /\ text[Len(text)] \in Whitespace
    THEN rstrip(SubSeq(text, 1, Len(text) - 1))
    ELSE text

\* str.strip(): leading whitespace removed as well
RECURSIVE strip(_)
strip(text) ==
    IF text # <<>> /\ Head(text) \in Whitespace THEN strip(Tail(text)) ELSE rstrip(text)

JACOCO_SNIPPET ==
    << "\n", "// Added by android_component_test_generator.py", "\n",
       "plugins { id '", "jacoco", "' }", "\n",
       "\n",
       "jacoco", " ", "{", "\n",
       " ", "toolVersion = \"0.8.10\"", "\n",
       "}", "\n",
       "\n",
       "tasks.withType(Test) {", "\n",
       " ", "finalizedBy", " ", "jacoco", "TestReport", "\n",
       "}", "\n",
       "\n",
       "jacoco", "TestReport", " ", "{", "\n",
       " ", "dependsOn test", "\n",
       " ", "reports {", "\n",
       " ", "xml.required = true", "\n",
       " ", "csv.required = false", "\n",
       " ", "html.required = true", "\n",
       " ", "}", "\n",
       "}", "\n" >>

ReportTaskMarker == <<"jacoco", "TestReport">>

PluginMarker == <<"jacoco">>

AlreadyConfiguredEither(content) ==
    Contains(content, ReportTaskMarker) \/ Contains(content, PluginMarker)

AlreadyConfiguredWrongMarker(content) ==
    Contains(content, <<"org.jacoco">>) /\ Contains(content, PluginMarker)

\* "jacocoTestReport" in content and "jacoco" in content
AlreadyConfigured(content) ==
    Contains(content, ReportTaskMarker) /\ Contains(content, PluginMarker)

AppendedStrip(content) == strip(content) \o <<"\n", "\n">> \o JACOCO_SNIPPET

\* content.rstrip() + "\n\n" + JACOCO_SNIPPET
Appended(content) == rstrip(content) \o <<"\n", "\n">> \o JACOCO_SNIPPET

\* the build file after the call, and whether the call wrote it
ensure_jacoco(build) ==
    IF ~build.exists THEN [build |-> build, wrote |-> FALSE, outcome |-> "returned"]
    ELSE IF AlreadyConfigured(build.text)
    THEN [build |-> build, wrote |-> FALSE, outcome |-> "returned"]
    ELSE [build |-> [exists |-> TRUE, text |-> Appended(build.text)],
          wrote |-> TRUE, outcome |-> "returned"]

(* ------------------------- component classifier ----------------------- *)

\* A source text is a sequence of tokens separated by blanks; a line break
\* is a token of its own.
Kw(w) == [k |-> "kw", w |-> <<w>>]
Id(w) == [k |-> "id", w |-> w]
Sym(w) == [k |-> "sym", w |-> <<w>>]
Nl == [k |-> "nl", w |-> <<"\n">>]

IsWord(t) == t.k \in {"kw", "id"}

\* the first position after i that is no line break (\s+ spans line breaks);
\* Len(text) + 1 when there is none
RECURSIVE SkipSpace(_, _)
SkipSpace(text, i) ==
    IF i + 1 > Len(text) THEN Len(text) + 1
    ELSE IF text[i + 1].k = "nl" THEN SkipSpace(text, i + 1)
    ELSE i + 1

COMPONENT_TYPES == <<"Activity", "Service", "BroadcastReceiver", "ViewModel">>

\* [\w\.]*?(\w*Activity)\b and its siblings on a type name: some prefix of
\* the name ends with the kind's word, at a word boundary
TypeMatches(w, kind) ==
    \E m \in 1..Len(w) : w[m] = kind /\ (m = Len(w) \/ w[m + 1] = ".")

\* (extends|:)\s+<type of the kind> at position j
RelationAt(text, j, kind) ==
    /\ text[j] \in {Kw("extends"), Sym(":")}
    /\ LET m == SkipSpace(text, j)
       IN m <= Len(text) /\ text[m].k = "id" /\ TypeMatches(text[m].w, kind)

\* \bclass\s+(\w+).*?(extends|:)\s+... matched from position i (re.S: the
\* gap .*? crosses line breaks and other declarations)
MatchesAt(text, i, kind) ==
    /\ text[i] = Kw("class")
    /\ LET n == SkipSpace(text, i)
       IN /\ n <= Len(text) /\ IsWord(text[n])
          /\ \E j \in (n + 1)..Len(text) : RelationAt(text, j, kind)

\* pattern.search(text): the leftmost position a match starts at, 0 for None
pattern_search(text, kind) ==
    IF \E i \in 1..Len(text) : MatchesAt(text, i, kind)
    THEN CHOOSE i \in 1..Len(text) :
             MatchesAt(text, i, kind) /\ \A h \in 1..(i - 1) : ~MatchesAt(text, h, kind)
    ELSE 0

\* match.group(1)
group1(text, i) == text[SkipSpace(text, i)].w

\* re.search(r"^\s*package\s+([\w\.]+)", text, re.M)
PackageAt(text, i) ==
    /\ text[i] = Kw("package")
    /\ (i = 1 \/ text[i - 1].k = "nl")
    /\ SkipSpace(text, i) <= Len(text) /\ IsWord(text[SkipSpace(text, i)])

package_of(text) ==
    IF \E i \in 1..Len(text) : PackageAt(text, i)
    THEN LET i == CHOOSE i \in 1..Len(text) :
                      PackageAt(text, i) /\ \A h \in 1..(i - 1) : ~PackageAt(text, h)
         IN text[SkipSpace(text, i)].w
    ELSE <<>>

is_file(f, p) == exists(f.src, p)

path_exists(f, p) == exists(f.src, p) \/ p \in f.dirs

RECURSIVE scan_patterns(_, _, _, _)
scan_patterns(text, package, path, k) ==
    IF k > Len(COMPONENT_TYPES) THEN <<>>
    ELSE LET component_type == COMPONENT_TYPES[k]
             match == pattern_search(text, component_type)
         IN (IF match = 0 THEN <<>>
             ELSE <<Component(group1(text, match), package, path, component_type)>>)
            \o scan_patterns(text, package, path, k + 1)

parse_component_file_unchecked(f, path) ==
    IF suffix(path) \notin SUPPORTED_EXTENSIONS THEN [outcome |-> "returned", result |-> <<>>]
    ELSE IF ~is_file(f, path) THEN [outcome |-> "FileNotFoundError", result |-> <<>>]
    ELSE LET text == read_text(f.src, path)
         IN [outcome |-> "returned", result |-> scan_patterns(text, package_of(text), path, 1)]

parse_component_file(f, path) ==
    IF suffix(path) \notin SUPPORTED_EXTENSIONS \/ ~is_file(f, path)
    THEN [outcome |-> "returned", result |-> <<>>]
    ELSE LET text == read_text(f.src, path)
         IN [outcome |-> "returned", result |-> scan_patterns(text, package_of(text), path, 1)]

(* ---------------------------- project scanner ------------------------- *)

\* source_root.rglob("*"): every file and directory below the directory
rglob(f, dir) == {p \in f.dirs \cup {x.path : x \in f.src} : Under(p, dir)}

\* the orders in which the filesystem may list the entries
Orders(S) ==
    {o \in [1..Cardinality(S) -> S] : \A i, j \in 1..Cardinality(S) : i # j => o[i] # o[j]}

Resolved(root, source_root) ==
    IF ~is_absolute(source_root) THEN Join(root, source_root) ELSE source_root

RECURSIVE parse_all(_, _)
parse_all(f, paths) ==
    IF paths = <<>> THEN <<>>
    ELSE parse_component_file(f, Head(paths)).result \o parse_all(f, Tail(paths))

\* order is the order in which rglob lists the entries
discover_components(f, root, source_root, order) ==
    LET resolved == Resolved(root, source_root)
    IN IF ~path_exists(f, resolved) THEN [outcome |-> "returned", result |-> <<>>]
       ELSE [outcome |-> "returned", result |-> parse_all(f, order)]

(* --------------------------- coverage summary ------------------------- *)

\* A float is an IEEE-754 double, held as [m, e] for the value m * 2^e with
\* m an odd natural number of at most 53 bits (zero is m = 0, e = 0).  m is
\* a sequence of limbs in base LimbBase, least significant first, without
\* leading zero limbs.

LimbBase == 32768

LimbBits == 15

MantissaBits == 53

RECURSIVE Big(_)
Big(n) == IF n = 0 THEN <<>> ELSE <<n % LimbBase>> \o Big(n \div LimbBase)

RECURSIVE BigNorm(_)
BigNorm(x) ==
    IF x # <<>> /\ x[Len(x)] = 0 THEN BigNorm(SubSeq(x, 1, Len(x) - 1)) ELSE x

RECURSIVE BigMulCarry(_, _, _)
BigMulCarry(x, k, carry) ==
    IF x = <<>> THEN Big(carry)
    ELSE LET v == Head(x) * k + carry
         IN <<v % LimbBase>> \o BigMulCarry(Tail(x), k, v \div LimbBase)

\* x * k, for 0 <= k < LimbBase
BigMulSmall(x, k) == BigNorm(BigMulCarry(x, k, 0))

RECURSIVE BigAddCarry(_, _, _)
BigAddCarry(x, y, carry) ==
    IF x = <<>> /\ y = <<>> THEN Big(carry)
    ELSE LET a == IF x = <<>> THEN 0 ELSE Head(x)
             b == IF y = <<>> THEN 0 ELSE Head(y)
             v == a + b + carry
         IN <<v % LimbBase>>
            \o BigAddCarry(IF x = <<>> THEN x ELSE Tail(x),
                           IF y = <<>> THEN y ELSE Tail(y), v \div LimbBase)

BigAdd(x, y) == BigNorm(BigAddCarry(x, y, 0))

RECURSIVE BigSubBorrow(_, _, _)
BigSubBorrow(x, y, borrow) ==
    IF x = <<>> THEN <<>>
    ELSE LET b == IF y = <<>> THEN 0 ELSE Head(y)
             v == Head(x) - b - borrow
         IN <<v % LimbBase>>
            \o BigSubBorrow(Tail(x), IF y = <<>> THEN y ELSE Tail(y),
                            IF v < 0 THEN 1 ELSE 0)

\* x - y, for x >= y
BigSub(x, y) == BigNorm(BigSubBorrow(x, y, 0))

\* x <= y
RECURSIVE BigLe(_, _)
BigLe(x, y) ==
    IF Len(x) # Len(y) THEN Len(x) < Len(y)
    ELSE IF x = <<>> THEN TRUE
    ELSE IF x[Len(x)] # y[Len(y)] THEN x[Len(x)] < y[Len(y)]
    ELSE BigLe(SubSeq(x, 1, Len(x) - 1), SubSeq(y, 1, Len(y) - 1))

\* quotient and remainder of x by k, for 0 < k < LimbBase
RECURSIVE BigDivRem(_, _)
BigDivRem(x, k) ==
    IF x = <<>> THEN [q |-> <<>>, r |-> 0]
    ELSE LET hi == BigDivRem(Tail(x), k)
             v == hi.r * LimbBase + Head(x)
         IN [q |-> <<v \div k>> \o hi.q, r |-> v % k]

BigDivSmall(x, k) == LET d == BigDivRem(x, k) IN [q |-> BigNorm(d.q), r |-> d.r]

RECURSIVE BitLen(_)
BitLen(n) == IF n = 0 THEN 0 ELSE 1 + BitLen(n \div 2)

BigBitLen(x) == IF x = <<>> THEN 0 ELSE LimbBits * (Len(x) - 1) + BitLen(x[Len(x)])

RECURSIVE Pow2(_)
Pow2(s) == IF s = 0 THEN 1 ELSE 2 * Pow2(s - 1)

\* x * 2^s
RECURSIVE BigShl(_, _)
BigShl(x, s) ==
    IF x = <<>> \/ s = 0 THEN x
    ELSE IF s >= LimbBits THEN <<0>> \o BigShl(x, s - LimbBits)
    ELSE BigMulSmall(x, Pow2(s))

\* the float of value m * 2^e, m of at most 53 bits: trailing zero bits of m
\* move into the exponent
RECURSIVE Canon(_, _)
Canon(m, e) ==
    IF m = <<>> THEN [m |-> <<>>, e |-> 0]
    ELSE IF Head(m) % 2 = 0 THEN Canon(BigDivSmall(m, 2).q, e + 1)
    ELSE [m |-> m, e |-> e]

\* m * 2^e rounded to 53 bits, to nearest, ties to even
RECURSIVE Round(_, _)
Round(m, e) ==
    LET s == BigBitLen(m) - MantissaBits
    IN IF s <= 0 THEN Canon(m, e)
       ELSE IF s < LimbBits
       THEN LET d == BigDivSmall(m, Pow2(s))
                half == Pow2(s - 1)
                up == d.r > half \/ (d.r = half /\ Head(d.q) % 2 = 1)
            IN Canon(IF up THEN BigAdd(d.q, <<1>>) ELSE d.q, e + s)
       ELSE \* drop 12 bits, keeping whether any of them was set
            LET d == BigDivSmall(m, 4096)
            IN Round(IF d.r # 0 /\ Head(d.q) % 2 = 0 THEN BigAdd(d.q, <<1>>) ELSE d.q, e + 12)

Zero == Canon(<<>>, 0)

\* float(n) of an integer 0 <= n < 2^30
FloatOfInt(n) == Canon(Big(n), 0)

\* x + y on floats
FAdd(x, y) ==
    LET e == IF x.e < y.e THEN x.e ELSE y.e
    IN Round(BigAdd(BigShl(x.m, x.e - e), BigShl(y.m, y.e - e)), e)

\* x / y on floats, y # 0 with an odd part below LimbBase: 57 or 58 bits of
\* the quotient, with one more bit that is set when the division is inexact
FDiv(x, y) ==
    IF x.m = <<>> THEN Zero
    ELSE LET b == y.m[1]
             k0 == 57 + BitLen(b) - BigBitLen(x.m)
             k == IF k0 < 0 THEN 0 ELSE k0
             d == BigDivSmall(BigShl(x.m, k), b)
             n == BigAdd(BigMulSmall(d.q, 2), IF d.r # 0 THEN <<1>> ELSE <<>>)
         IN Round(n, x.e - y.e - k - 1)

\* x * y on floats, y with an odd part below LimbBase
FMul(x, y) ==
    IF x.m = <<>> \/ y.m = <<>> THEN Zero
    ELSE Round(BigMulSmall(x.m, y.m[1]), x.e + y.e)

\* float(s) of a string of decimal digits
RECURSIVE DigitsValue(_)
DigitsValue(ds) ==
    IF ds = <<>> THEN 0 ELSE 10 * DigitsValue(SubSeq(ds, 1, Len(ds) - 1)) + ds[Len(ds)]

\* float(counter.attrib.get(name, 0))
AttrFloat(attr) == IF attr.has THEN FloatOfInt(DigitsValue(attr.v)) ELSE Zero

CoverageSummary(covered, missed) == [covered |-> covered, missed |-> missed]

total(s) == FAdd(s.covered, s.missed)

coverage_pct_of_missed(s) ==
    IF total(s) = Zero THEN Zero ELSE FMul(FDiv(s.missed, total(s)), FloatOfInt(100))

coverage_pct(s) ==
    IF total(s) = Zero THEN Zero ELSE FMul(FDiv(s.covered, total(s)), FloatOfInt(100))

\* root.find("counter[@type='INSTRUCTION']"): the first child of the root
\* that is such a counter, 0 for None
find_instruction(counters) ==
    IF \E i \in 1..Len(counters) : counters[i].type = "INSTRUCTION"
    THEN CHOOSE i \in 1..Len(counters) :
             counters[i].type = "INSTRUCTION"
             /\ \A h \in 1..(i - 1) : counters[h].type # "INSTRUCTION"
    ELSE 0

NoSummary == CoverageSummary(Zero, Zero)

parse_coverage(report) ==
    IF ~report.exists THEN [outcome |-> "returned", found |-> FALSE, summary |-> NoSummary]
    ELSE IF ~report.wellformed THEN [outcome |-> "ParseError", found |-> FALSE, summary |-> NoSummary]
    ELSE LET i == find_instruction(report.counters)
         IN IF i = 0 THEN [outcome |-> "returned", found |-> FALSE, summary |-> NoSummary]
            ELSE [outcome |-> "returned", found |-> TRUE,
                  summary |-> CoverageSummary(AttrFloat(report.counters[i].covered),
                                              AttrFloat(report.counters[i].missed))]

(* ------------------------------ universe ------------------------------ *)

Root == Cwd

SourceRoot == Path("", << <<"app">>, <<"src">>, <<"main">>, <<"java">> >>)

SrcDir == Join(Root, SourceRoot)

MissingDir == Path("", << <<"lib">>, <<"src">> >>)

SrcFile(name, ext) == Join(SrcDir, Path("", <<name \o <<ext>> >>))

AppPackage == <<"com", ".", "app">>

Units ==
    { Component(<<"Main", "Activity">>, AppPackage, SrcFile(<<"Main", "Activity">>, ".kt"), "Activity"),
      Component(<<"Cart", "ViewModel">>, <<>>, SrcFile(<<"Cart", "ViewModel">>, ".java"), "ViewModel") }

Batches == SeqsUpTo(Units, MaxBatch)

TestPaths == {test_path(c) : c \in Units}

\* the storage fails no write, or the writes of one path: at open, or after
\* it with room for up to MaxRoom items
BadSets ==
    {{}}
    \cup {{[path |-> p, mode |-> "open", room |-> 0]} : p \in TestPaths}
    \cup {{[path |-> p, mode |-> "full", room |-> k]} : p \in TestPaths, k \in 0..MaxRoom}

NoBuild == [exists |-> FALSE, text |-> <<>>]

NoReport == [exists |-> FALSE, wellformed |-> TRUE, counters |-> <<>>]

EmptyFs == [tests |-> {}, dirs |-> {Root}, src |-> {}, build |-> NoBuild, report |-> NoReport]

NoCall == [op |-> "none"]

\* build-file texts
BuildPieces == {"android {}", " ", "\n", "jacoco", "TestReport"}

BuildTexts == SeqsUpTo(BuildPieces, MaxText)

\* source texts made of class declarations
ClassNames == { <<"Helper">>, <<"Login", "Activity">> }

Headers ==
    { <<>> }
    \cup { <<Kw("extends"), Id(w)>> : w \in { <<"Activity">>, <<"App", "Service">>, <<"Object">> } }
    \cup { <<Sym(":"), Id(w)>> : w \in { <<"Android", "ViewModel">>, <<"BroadcastReceiver">> } }

Decls == { <<Kw("class"), Id(n)>> \o h \o <<Sym("{}"), Nl>> : n \in ClassNames, h \in Headers }

PackageLines == { <<>>, <<Kw("package"), Id(AppPackage), Sym(";"), Nl>> }

SourceTexts == { pl \o Flatten(ds) : pl \in PackageLines, ds \in SeqsUpTo(Decls, MaxDecls) }

SourceExts == {".java", ".kt", ".txt"}

MainFile(ext) == SrcFile(<<"Main">>, ext)

SrcTreeDirs == {Root} \cup Parents(MainFile(".java"))

\* a source tree of two files
TwoFiles ==
    { [path |-> SrcFile(<<"A", "Activity">>, ".java"),
       text |-> <<Kw("class"), Id(<<"A", "Activity">>), Kw("extends"), Id(<<"Activity">>),
                  Sym("{}"), Nl>>],
      [path |-> SrcFile(<<"B", "Service">>, ".kt"),
       text |-> <<Kw("class"), Id(<<"B", "Service">>), Sym(":"), Id(<<"Service">>),
                  Sym("{}"), Nl>>] }

\* coverage reports
Digits == 0..9

AttrValues ==
    { [has |-> FALSE, v |-> <<>>] }
    \cup { [has |-> TRUE, v |-> ds] : ds \in SeqsUpTo(Digits, MaxAttrLen) \ { <<>> } }

Counter(type, covered, missed) == [type |-> type, covered |-> covered, missed |-> missed]

LineCounter == Counter("LINE", [has |-> TRUE, v |-> <<7>>], [has |-> TRUE, v |-> <<3>>])

Report(counters) == [exists |-> TRUE, wellformed |-> TRUE, counters |-> counters]

BrokenReport == [exists |-> TRUE, wellformed |-> FALSE, counters |-> <<>>]

\* the paths handed to the classifier: a file of each extension, and a directory
ScanPaths == {MainFile(ext) : ext \in SourceExts} \cup {SrcDir}

LoginFile(ext) ==
    [path |-> MainFile(ext),
     text |-> <<Kw("class"), Id(<<"Login", "Activity">>), Kw("extends"), Id(<<"Activity">>),
                Sym("{}"), Nl>>]

SomeBuild == [exists |-> TRUE, text |-> <<"android {}", "\n">>]

InstructionReport ==
    Report(<<LineCounter,
             Counter("INSTRUCTION", [has |-> TRUE, v |-> <<2>>], [has |-> TRUE, v |-> <<1>>])>>)

\* the projects the tool is run on: an empty directory, a project without
\* sources, projects of one unit, of two units and of a text file
Projects ==
    { EmptyFs,
      [EmptyFs EXCEPT !.dirs = SrcTreeDirs, !.build = SomeBuild,
                      !.report = Report(<<LineCounter>>)],
      [EmptyFs EXCEPT !.dirs = SrcTreeDirs, !.src = {LoginFile(".kt")},
                      !.report = InstructionReport],
      [EmptyFs EXCEPT !.dirs = SrcTreeDirs, !.src = {LoginFile(".kt")},
                      !.build = SomeBuild],
      [EmptyFs EXCEPT !.dirs = SrcTreeDirs, !.src = TwoFiles, !.build = SomeBuild,
                      !.report = InstructionReport],
      [EmptyFs EXCEPT !.dirs = SrcTreeDirs, !.src = {LoginFile(".txt")},
                      !.report = BrokenReport] }

(* ------------------------------- actions ------------------------------ *)

Step == /\ runs < MaxRuns
        /\ runs' = runs + 1
        /\ fs0' = fs
        /\ call0' = call

WriteTests(components, force, bad) ==
    LET r == write_tests(fs, components, force, bad)
    IN /\ Step
       /\ fs' = [fs EXCEPT !.tests = r.tests, !.dirs = r.dirs]
       /\ call' = [op |-> "write_tests", components |-> components, force |-> force,
                   bad |-> bad, written |-> r.written, skipped |-> r.skipped,
                   attempted |-> r.attempted, destinations |-> r.destinations,
                   failedAt |-> r.failedAt, outcome |-> r.outcome]

\* the tool run on a project
FirstRun ==
    \E components \in Batches, force \in BOOLEAN, bad \in BadSets :
        runs = 0 /\ WriteTests(components, force, bad)

\* the tool run again on the same project: the scan finds the same units;
\* the storage fails as in the run before, fails at open, or fails nothing
Rerun ==
    /\ runs > 0
    /\ call.op = "write_tests"
    /\ \E force \in BOOLEAN,
          bad \in {call.bad} \cup {b \in BadSets : \A x \in b : x.mode = "open"} :
           WriteTests(call.components, force, bad)

\* ensure_directory called alone: the parents of the path are created
EnsureDirectory ==
    \E path \in TestPaths :
        /\ Step
        /\ fs' = [fs EXCEPT !.dirs = ensure_directory(@, path)]
        /\ call' = [op |-> "ensure_directory", path |-> path, outcome |-> "returned"]

EnsureJacoco ==
    LET r == ensure_jacoco(fs.build)
    IN /\ Step
       /\ fs' = [fs EXCEPT !.build = r.build]
       /\ call' = [op |-> "ensure_jacoco", wrote |-> r.wrote, outcome |-> r.outcome]

ParseComponentFile ==
    \E path \in ScanPaths :
        LET r == parse_component_file(fs, path)
        IN /\ Step
           /\ fs' = fs
           /\ call' = [op |-> "parse_component_file", path |-> path,
                       outcome |-> r.outcome, result |-> r.result]

DiscoverComponents ==
    \E source_root \in {SourceRoot, SrcDir, MissingDir} :
      \E order \in Orders(rglob(fs, Resolved(Root, source_root))) :
        LET r == discover_components(fs, Root, source_root, order)
        IN /\ Step
           /\ fs' = fs
           /\ call' = [op |-> "discover_components", source_root |-> source_root,
                       outcome |-> r.outcome, result |-> r.result]

\* summarize_coverage: parse_coverage, then the percentage of the summary
SummarizeCoverage ==
    LET r == parse_coverage(fs.report)
    IN /\ Step
       /\ fs' = fs
       /\ call' = [op |-> "summarize_coverage", outcome |-> r.outcome, found |-> r.found,
                   summary |-> r.summary,
                   pct |-> IF r.found THEN coverage_pct(r.summary) ELSE Zero]

\* write_tests on the units the last scan returned, as main does
WriteScanned ==
    \E force \in BOOLEAN :
        /\ call.op \in {"parse_component_file", "discover_components"}
        /\ call.result # <<>>
        /\ WriteTests(call.result, force, {})

\* main: the scan (of one file, or of the source tree listed in some order),
\* write_tests when the scan found a unit, then ensure_jacoco and
\* summarize_coverage when asked for.  An exception ends main where it is
\* raised, before the steps that follow.
Main ==
    \E has_source_file \in BOOLEAN, force \in BOOLEAN, jacoco \in BOOLEAN,
       coverage_report \in BOOLEAN :
      \E order \in Orders(rglob(fs, Resolved(Root, SourceRoot))) :
      \E args \in {[project_root |-> Root, source_root |-> SourceRoot,
                    has_source_file |-> has_source_file,
                    source_file |-> Join(SourceRoot, Path("", << <<"Main", ".kt">> >>)),
                    force |-> force, jacoco |-> jacoco,
                    coverage_report |-> coverage_report]} :
      \E scan \in {IF args.has_source_file
                    THEN parse_component_file(fs, Resolved(args.project_root, args.source_file))
                    ELSE discover_components(fs, args.project_root, args.source_root, order)} :
      \E w \in {IF scan.result # <<>> THEN write_tests(fs, scan.result, args.force, {})
                 ELSE [WriteStart(fs) EXCEPT !.outcome = "returned"]} :
      \E raised \in {w.outcome # "returned"} :
      \E j \in {IF args.jacoco /\ ~raised THEN ensure_jacoco(fs.build)
                 ELSE [build |-> fs.build, wrote |-> FALSE, outcome |-> "returned"]} :
      \E c \in {IF args.coverage_report /\ ~raised THEN parse_coverage(fs.report)
                 ELSE [outcome |-> "returned", found |-> FALSE, summary |-> NoSummary]} :
        /\ Step
        /\ fs' = [fs EXCEPT !.tests = w.tests, !.dirs = w.dirs, !.build = j.build]
        /\ call' = [op |-> "main", args |-> args,
                    outcome |-> IF raised THEN w.outcome ELSE c.outcome,
                    components |-> scan.result, written |-> w.written,
                    wrote |-> j.wrote, found |-> c.found,
                    pct |-> IF c.found THEN coverage_pct(c.summary) ELSE Zero]

(* --------------------------- specifications --------------------------- *)

Fresh == fs0 = fs /\ call = NoCall /\ call0 = NoCall /\ runs = 0

\* the scaffold writer on a project whose test tree holds any of the files
InitWrite ==
    /\ \E P \in SUBSET TestPaths :
           fs = [EmptyFs EXCEPT !.tests = {[path |-> p, text |-> OldText] : p \in P},
                                !.dirs = {Root} \cup UNION {Parents(p) : p \in P}]
    /\ Fresh

NextWrite == FirstRun \/ Rerun

SpecWrite == InitWrite /\ [][NextWrite]_vars

\* the augmenter on any build file
InitJacoco ==
    /\ \E b \in {NoBuild} \cup {[exists |-> TRUE, text |-> t] : t \in BuildTexts} :
           fs = [EmptyFs EXCEPT !.build = b]
    /\ Fresh

NextJacoco == EnsureJacoco

SpecJacoco == InitJacoco /\ [][NextJacoco]_vars

\* the classifier and the scanner on a source tree of one file of any text,
\* on the tree of two files, on an empty tree and without a tree
InitScan ==
    /\ \/ fs = EmptyFs
       \/ fs = [EmptyFs EXCEPT !.dirs = SrcTreeDirs]
       \/ fs = [EmptyFs EXCEPT !.dirs = SrcTreeDirs, !.src = TwoFiles]
       \/ \E ext \in SourceExts, text \in SourceTexts :
              fs = [EmptyFs EXCEPT !.dirs = SrcTreeDirs,
                                   !.src = {[path |-> MainFile(ext), text |-> text]}]
    /\ Fresh

NextScan == ParseComponentFile \/ DiscoverComponents

SpecScan == InitScan /\ [][NextScan]_vars

\* the summarizer on any report
InitCoverage ==
    /\ \E r \in {NoReport, BrokenReport, Report(<<>>), Report(<<LineCounter>>)}
              \cup {Report(pre \o <<Counter("INSTRUCTION", c, m)>>) :
                        pre \in {<<>>, <<LineCounter>>}, c \in AttrValues, m \in AttrValues} :
           fs = [EmptyFs EXCEPT !.report = r]
    /\ Fresh

NextCoverage == SummarizeCoverage

SpecCoverage == InitCoverage /\ [][NextCoverage]_vars

\* the whole tool on a project that may lack any of its inputs
Init ==
    /\ fs \in Projects
    /\ Fresh

Next ==
    \/ ParseComponentFile
    \/ DiscoverComponents
    \/ WriteScanned
    \/ EnsureDirectory
    \/ EnsureJacoco
    \/ SummarizeCoverage
    \/ Main

Spec == Init /\ [][Next]_vars

(* ------------------------ scaffold writer claims ---------------------- *)

IsWrite(c) == c.op = "write_tests"

\* the paths a run records, in unit order: a unit is written when force is
\* set or its destination is absent when its turn comes
RECURSIVE ExpectedWritten(_, _, _)
ExpectedWritten(components, force, present) ==
    IF components = <<>> THEN <<>>
    ELSE LET p == test_path(Head(components))
         IN IF force \/ p \notin present
            THEN <<p>> \o ExpectedWritten(Tail(components), force, present \cup {p})
            ELSE ExpectedWritten(Tail(components), force, present)

SameFile(f, g, p) ==
    /\ exists(f.tests, p) <=> exists(g.tests, p)
    /\ exists(f.tests, p) => read_text(f.tests, p) = read_text(g.tests, p)

\* C1: two runs in a row of write_tests on the same batch with force=false,
\* no write refused by the storage: the second run returns the empty list,
\* skips every unit, writes no file, and every file is as the first run left it.
C1_SecondRunIsNoOp ==
    (/\ runs >= 2 /\ IsWrite(call0) /\ IsWrite(call)
     /\ ~call0.force /\ ~call.force
     /\ call0.outcome # "OSError" /\ call.outcome # "OSError")
    => /\ call.outcome = "returned"
       /\ call.written = <<>>
       /\ Len(call.skipped) = Len(call.components)
       /\ fs.tests = fs0.tests

\* C2: when no write is refused by the storage, write_tests returns normally
\* with exactly the test paths, in unit order, of the units whose destination
\* was absent or that were forced, and each such destination holds the
\* generated text of a unit of the batch that maps to it.
C2_ReturnsWrittenPaths ==
    (IsWrite(call) /\ call.outcome # "OSError")
    => /\ call.outcome = "returned"
       /\ call.written = ExpectedWritten(call.components, call.force,
                                         {f.path : f \in fs0.tests})
       /\ \A k \in 1..Len(call.written) :
              \E i \in 1..Len(call.components) :
                  /\ test_path(call.components[i]) = call.written[k]
                  /\ exists(fs.tests, call.written[k])
                  /\ read_text(fs.tests, call.written[k]) = test_class(call.components[i])

\* C3 as stated: when the storage refuses the write of unit i, every unit
\* after i in the batch is still attempted.
C3_BestEffort ==
    (IsWrite(call) /\ call.failedAt > 0)
    => \A j \in (call.failedAt + 1)..Len(call.components) : j \in call.attempted

\* C3 amended: when the storage fails the write of unit i, write_tests
\* raises at once: the units attempted are exactly 1..i, the failed write is
\* that of the destination of unit i, nothing is recorded as written for unit
\* i, and no file other than the destinations of the units up to i differs
\* from before the call (the destination of unit i may be left part-written).
C3_FailureAbortsBatch ==
    (IsWrite(call) /\ (call.outcome = "OSError" \/ call.failedAt > 0))
    => /\ call.outcome = "OSError"
       /\ call.failedAt \in 1..Len(call.components)
       /\ call.attempted = 1..call.failedAt
       /\ \E b \in call.bad : b.path = test_path(call.components[call.failedAt])
       /\ \A k \in 1..Len(call.written) :
              call.written[k] # test_path(call.components[call.failedAt])
       /\ \A p \in TestPaths :
              (\A k \in 1..call.failedAt : test_path(call.components[k]) # p)
              => SameFile(fs, fs0, p)

\* a failed write on a unit that is neither the first nor the last of its
\* batch, the units before it skipped, its destination created and left empty
C3_Witness ==
    /\ IsWrite(call) /\ call.outcome = "OSError"
    /\ \E b \in call.bad : b.mode = "full" /\ b.room = 0
    /\ exists(fs.tests, test_path(call.components[call.failedAt]))
    /\ read_text(fs.tests, test_path(call.components[call.failedAt]))
           = PartOf(test_class(call.components[call.failedAt]), 0)
    /\ ~exists(fs0.tests, test_path(call.components[call.failedAt]))
    /\ call.failedAt > 1 /\ call.failedAt < Len(call.components)
    /\ Len(call.skipped) = call.failedAt - 1

\* the package as path segments, for a package of words separated by dots
Segments(package) == [k \in 1..((Len(package) + 1) \div 2) |-> <<package[2 * k - 1]>>]

ExpectedPath(c, ext) ==
    Path("", TestRoot \o Segments(c.package) \o <<c.name \o <<"Test">> \o <<ext>> >>)

\* C8 as stated: the destination of every unit is the test root, the
\* package as path segments, then testName with the extension of the
\* unit's source file.
C8_SourceExtension ==
    IsWrite(call)
    => \A i \in call.attempted :
           call.destinations[i]
               = ExpectedPath(call.components[i], suffix(call.components[i].file_path))

\* C8 amended: the destination of every unit is the relative path made of
\* the test root app/src/test/java, the package as path segments, then
\* testName with the extension .java, whatever the extension of the source.
C8_JavaExtension ==
    IsWrite(call)
    => \A i \in call.attempted :
           call.destinations[i] = ExpectedPath(call.components[i], ".java")

\* a unit of a Kotlin source in a package has had its destination computed
C8_Witness ==
    /\ IsWrite(call)
    /\ \E i \in call.attempted :
           /\ suffix(call.components[i].file_path) = ".kt"
           /\ call.components[i].package = AppPackage
           /\ suffix(call.destinations[i]) = ".java"
           /\ Len(call.destinations[i].parts) = Len(TestRoot) + 3

(* ---------------------- build-file augmenter claims ------------------- *)

IsJacoco(c) == c.op = "ensure_jacoco"

Occurrences(text, pat) ==
    Cardinality({i \in 0..(Len(text) - Len(pat)) : SubSeq(text, i + 1, i + Len(pat)) = pat})

\* C4: ensure_jacoco run twice in a row on an existing build file: the
\* second run leaves the file exactly as the first run left it, and the file
\* holds the configuration block at most once.
C4_SecondRunIsNoOp ==
    (runs >= 2 /\ IsJacoco(call0) /\ IsJacoco(call) /\ fs0.build.exists)
    => /\ fs.build = fs0.build
       /\ ~call.wrote
       /\ Occurrences(fs.build.text, JACOCO_SNIPPET) <= 1

\* the first run appended the block, the second run has ended
C4_Witness ==
    /\ runs >= 2 /\ IsJacoco(call0) /\ IsJacoco(call)
    /\ call0.wrote
    /\ Occurrences(fs.build.text, JACOCO_SNIPPET) = 1

\* C5 as stated: the content after the call begins with the entire content
\* before it, trailing whitespace included.
C5_OriginalIsPrefix ==
    (IsJacoco(call) /\ fs0.build.exists)
    => IsPrefix(fs0.build.text, fs.build.text)

\* C5 amended: the content after the call begins with the content before it
\* less its trailing whitespace (the end of the text from its last
\* non-whitespace piece on); a call that appends nothing leaves the file as
\* it was.
C5_StrippedOriginalIsPrefix ==
    (IsJacoco(call) /\ fs0.build.exists)
    => /\ fs.build.exists
       /\ \E k \in 0..Len(fs0.build.text) :
              /\ \A h \in (k + 1)..Len(fs0.build.text) : fs0.build.text[h] \in Whitespace
              /\ k > 0 => fs0.build.text[k] \notin Whitespace
              /\ IsPrefix(SubSeq(fs0.build.text, 1, k), fs.build.text)
              /\ call.wrote => SubSeq(fs.build.text, k + 1, Len(fs.build.text))
                                   = <<"\n", "\n">> \o JACOCO_SNIPPET
       /\ ~call.wrote => fs.build = fs0.build

\* the block was appended to a text that began and ended with whitespace,
\* and the text before the call is no prefix of the text after it
C5_Witness ==
    /\ IsJacoco(call) /\ fs0.build.exists /\ call.wrote
    /\ Len(fs0.build.text) >= 3
    /\ Head(fs0.build.text) \in Whitespace
    /\ fs0.build.text[2] \notin Whitespace
    /\ fs0.build.text[Len(fs0.build.text)] = " "
    /\ ~IsPrefix(fs0.build.text, fs.build.text)

\* C6: on an existing build file the call writes nothing exactly when the
\* text holds both the plugin marker jacoco and the report-task marker
\* jacocoTestReport; when either is missing it appends the block.
C6_BothMarkers ==
    (IsJacoco(call) /\ fs0.build.exists)
    => LET both == /\ Contains(fs0.build.text, <<"jacoco">>)
                   /\ Contains(fs0.build.text, <<"jacoco", "TestReport">>)
       IN /\ both => (~call.wrote /\ fs.build = fs0.build)
          /\ ~both => /\ call.wrote
                      /\ fs.build.text # fs0.build.text
                      /\ Len(fs.build.text) >= Len(JACOCO_SNIPPET)
                      /\ SubSeq(fs.build.text,
                                Len(fs.build.text) - Len(JACOCO_SNIPPET) + 1,
                                Len(fs.build.text)) = JACOCO_SNIPPET

\* the block was appended to a text that held the plugin marker alone
C6_Witness ==
    /\ IsJacoco(call) /\ fs0.build.exists /\ call.wrote
    /\ Contains(fs0.build.text, <<"jacoco">>)
    /\ ~Contains(fs0.build.text, <<"jacoco", "TestReport">>)

(* -------------------------- classifier claims ------------------------- *)

IsParse(c) == c.op = "parse_component_file"

\* the end of the declaration that starts at position i: its body
HeaderEnd(text, i) ==
    IF \E j \in (i + 1)..Len(text) : text[j] = Sym("{}")
    THEN CHOOSE j \in (i + 1)..Len(text) :
             text[j] = Sym("{}") /\ \A h \in (i + 1)..(j - 1) : text[h] # Sym("{}")
    ELSE Len(text)

\* the class declared at position i has, in its own header, the inheritance
\* relation to a supertype of the kind
OwnHeader(text, i, kind) ==
    /\ text[i] = Kw("class")
    /\ \E j \in (i + 1)..HeaderEnd(text, i) : RelationAt(text, j, kind)

Declares(text, kind) == \E i \in 1..Len(text) : OwnHeader(text, i, kind)

FirstDeclaring(text, kind) ==
    CHOOSE i \in 1..Len(text) :
        OwnHeader(text, i, kind) /\ \A h \in 1..(i - 1) : ~OwnHeader(text, h, kind)

Kinds == {COMPONENT_TYPES[k] : k \in 1..Len(COMPONENT_TYPES)}

\* C7: on a supported file made of class declarations, the result holds
\* exactly one fragment for each kind that a class of the text declares and
\* none for the other kinds, and the name of each fragment is the name of the
\* (first) class whose own header has the relation to the kind's supertype.
C7_OneFragmentPerKindWithItsName ==
    (/\ IsParse(call)
     /\ suffix(call.path) \in SUPPORTED_EXTENSIONS
     /\ is_file(fs0, call.path))
    => LET text == read_text(fs0.src, call.path)
           result == call.result
       IN /\ call.outcome = "returned"
          /\ \A kind \in Kinds :
                 Cardinality({k \in 1..Len(result) : result[k].type = kind})
                     = IF Declares(text, kind) THEN 1 ELSE 0
          /\ \A k \in 1..Len(result) :
                 Declares(text, result[k].type)
                 => result[k].name = group1(text, FirstDeclaring(text, result[k].type))

(* ------------------------ coverage summary claims --------------------- *)

IsSummarize(c) == c.op = "summarize_coverage"

\* the INSTRUCTION counter of the report, and the count an attribute spells
InstructionCounter(report) == report.counters[find_instruction(report.counters)]

CountOf(attr) == IF attr.has THEN DigitsValue(attr.v) ELSE 0

\* pct * total and 100 * covered, both scaled by the same power of two
ScaledPct(pct, t) == BigShl(BigMulSmall(pct.m, t), IF pct.e > 0 THEN pct.e ELSE 0)

ScaledExact(pct, c) == BigShl(Big(100 * c), IF pct.e < 0 THEN 0 - pct.e ELSE 0)

BigDistance(x, y) == IF BigLe(x, y) THEN BigSub(y, x) ELSE BigSub(x, y)

\* C9 as stated: the percentage of a summary with non-negative counts is
\* exactly 0 when covered + missed = 0, equals covered / (covered + missed)
\* * 100 otherwise, and then lies between 0 and 100.
C9_CoveragePct ==
    (IsSummarize(call) /\ call.found)
    => LET covered == CountOf(InstructionCounter(fs0.report).covered)
           missed == CountOf(InstructionCounter(fs0.report).missed)
           pct == call.pct
       IN /\ covered + missed = 0 => pct = Zero
          /\ covered + missed > 0 =>
                 /\ ScaledPct(pct, covered + missed) = ScaledExact(pct, covered)
                 /\ BigLe(ScaledPct(pct, 1), ScaledExact(pct, 1))

\* C9 amended: for non-negative integer counts the percentage is exactly 0
\* when covered + missed = 0; otherwise it is the double nearest to 100
\* times the double nearest to covered / (covered + missed), which is
\* within a relative error of 2^-51 of covered / (covered + missed) * 100
\* (66.66666666666666 for 2 covered and 1 missed), and lies between 0 and 100.
C9_CoveragePctRounded ==
    (IsSummarize(call) /\ call.found)
    => LET covered == CountOf(InstructionCounter(fs0.report).covered)
           missed == CountOf(InstructionCounter(fs0.report).missed)
           pct == call.pct
           got == ScaledPct(pct, covered + missed)
           exact == ScaledExact(pct, covered)
       IN /\ call.summary = CoverageSummary(FloatOfInt(covered), FloatOfInt(missed))
          /\ BigBitLen(pct.m) <= MantissaBits
          /\ covered + missed = 0 => pct = Zero
          /\ covered + missed > 0 =>
                 /\ BigLe(BigShl(BigDistance(got, exact), 51), exact)
                 /\ BigLe(ScaledPct(pct, 1), ScaledExact(pct, 1))
                 /\ covered = 0 <=> pct = Zero

\* a report of 2 covered and 1 missed instructions was summarized as
\* 66.66666666666666, that is 2345624805922133 / 2^45, which is not 200 / 3
C9_Witness ==
    /\ IsSummarize(call) /\ call.found
    /\ call.summary = CoverageSummary(FloatOfInt(2), FloatOfInt(1))
    /\ call.pct.e = 0 - 45
    /\ call.pct.m = <<21845, 10922, 21845, 66>>
    /\ ScaledPct(call.pct, 3) # ScaledExact(call.pct, 2)

(* --------------------------- recovery claims -------------------------- *)

\* C10: a missing source directory, a missing or unsupported single file, a
\* missing build file, a missing report and a report without an INSTRUCTION
\* counter are each recovered in the call: it returns normally with the
\* empty list (scanner, classifier), without writing (augmenter) or with no
\* summary (summarizer), and no file or directory is created or changed.
C10_NonFatalRecovered ==
    /\ (call.op = "discover_components" /\ ~path_exists(fs0, Resolved(Root, call.source_root)))
       => (call.outcome = "returned" /\ call.result = <<>> /\ fs = fs0)
    /\ (IsParse(call) /\ (~is_file(fs0, call.path)
                          \/ suffix(call.path) \notin SUPPORTED_EXTENSIONS))
       => (call.outcome = "returned" /\ call.result = <<>> /\ fs = fs0)
    /\ (call.op = "ensure_jacoco" /\ ~fs0.build.exists)
       => (call.outcome = "returned" /\ ~call.wrote /\ fs = fs0)
    /\ (IsSummarize(call)
        /\ (~fs0.report.exists
            \/ (fs0.report.wellformed
                /\ \A i \in 1..Len(fs0.report.counters) :
                       fs0.report.counters[i].type # "INSTRUCTION")))
       => (call.outcome = "returned" /\ ~call.found /\ fs = fs0)
    /\ (/\ call.op = "main"
        /\ (IF call.args.has_source_file
            THEN ~is_file(fs0, Resolved(Root, call.args.source_file))
            ELSE ~path_exists(fs0, Resolved(Root, call.args.source_root)))
        /\ ~fs0.build.exists
        /\ ~fs0.report.exists)
       => (call.outcome = "returned" /\ call.components = <<>> /\ ~call.wrote
           /\ ~call.found /\ fs = fs0)

\* a supported file that does not exist was classified, then a report
\* without an INSTRUCTION counter was summarized
C10_Witness ==
    /\ runs >= 2
    /\ IsParse(call0) /\ suffix(call0.path) \in SUPPORTED_EXTENSIONS
    /\ ~is_file(fs, call0.path) /\ call0.result = <<>>
    /\ IsSummarize(call) /\ fs.report.exists /\ fs.report.counters # <<>>
    /\ ~call.found

====
